---- MODULE Spec2Model ----
(***************************************************************************)
(* Model of email_automation.py (Lueur Quotidienne daily email script).    *)
(*                                                                         *)
(* Spec       : successive runs of main() against the file system and the  *)
(*              newsletter provider.                                       *)
(* SpecRender : generate_email_html on bounded templates and values.       *)
(* SpecUtm    : append_utm on bounded URLs and UTM fields.                 *)
(*                                                                         *)
(* Text is a sequence of one-character strings.  A file is a record        *)
(* [exists, ...]; a Python value that may be None is a record [tag, s].    *)
(***************************************************************************)
EXTENDS Integers, Sequences, FiniteSets, TLC

VARIABLES
    fs,            \* dir -> [id: the .last_email_id file, csv: the report file]
    provider,      \* emails created at the provider, in creation order
    pc,            \* position of the current run of main()
    cwd,           \* working directory of the current run
    now_local,     \* main: now_local, as a day ordinal
    subject,       \* main: subject
    email_id,      \* main: email_id (the provider's answer, maybe None)
    last_email_id, \* main: last_email_id
    analytics,     \* main: analytics
    runNo,         \* number of runs started
    outcome,       \* how the last finished run ended
    fsAtStart,     \* history: fs when the current run started
    idWrites,      \* history: dir -> writes of .last_email_id in this run
    csvAppends,    \* history: dir -> appends to the report in this run
    requested,     \* history: identifiers whose analytics this run requested
    retry,         \* history: prior identifier whose fetch failed, not yet fetched
    calls,         \* history: dir -> arguments of the append_report_row calls
    render,        \* SpecRender: inputs and output of generate_email_html
    utm            \* SpecUtm: inputs and output of append_utm

vars == <<fs, provider, pc, cwd, now_local, subject, email_id, last_email_id,
          analytics, runNo, outcome, fsAtStart, idWrites, csvAppends,
          requested, retry, calls, render, utm>>

runVars == <<fs, provider, pc, cwd, now_local, subject, email_id, last_email_id,
             analytics, runNo, outcome, fsAtStart, idWrites, csvAppends,
             requested, retry, calls>>

----------------------------------------------------------------------------
(* Bounds *)

MaxRuns == 3

FirstDay == 31

----------------------------------------------------------------------------
(* Text helpers *)

Whitespace == {" ", "\n", "\t"}

RECURSIVE LStrip(_)
LStrip(s) == IF s # <<>> /\ Head(s) \in Whitespace THEN LStrip(Tail(s)) ELSE s

RECURSIVE RStrip(_)
RStrip(s) ==
    IF s # <<>> /\ s[Len(s)] \in Whitespace
    THEN RStrip(SubSeq(s, 1, Len(s) - 1))
    ELSE s

\* str.strip()
Strip(s) == RStrip(LStrip(s))

\* Python values: a str or None
PyStr(s) == [tag |-> "str", s |-> s]
PyNone == [tag |-> "none", s |-> <<>>]

\* str(email_id)
Str(v) == IF v.tag = "none" THEN <<"N", "o", "n", "e">> ELSE v.s

----------------------------------------------------------------------------
(* Directories and files *)

ScriptDir == "script_dir"
OtherDir == "other_dir"
Dirs == {ScriptDir, OtherDir}

NoIdFile == [exists |-> FALSE, text |-> <<>>]
IdFile(t) == [exists |-> TRUE, text |-> t]
NoCsv == [exists |-> FALSE, rows |-> <<>>]

\* open(path, "w").write(text) on dir's .last_email_id
WriteId(f, dir, text) == [f EXCEPT ![dir].id = IdFile(text)]

----------------------------------------------------------------------------
(* Dates: day ordinals of 2024; ordinal 0 is 2023-12-31 *)

Digit(n) == CASE n = 0 -> "0" [] n = 1 -> "1" [] n = 2 -> "2" [] n = 3 -> "3"
              [] n = 4 -> "4" [] n = 5 -> "5" [] n = 6 -> "6" [] n = 7 -> "7"
              [] n = 8 -> "8" [] n = 9 -> "9"

Pad2(n) == <<Digit(n \div 10), Digit(n % 10)>>
Pad4(n) == <<Digit(n \div 1000), Digit((n \div 100) % 10),
             Digit((n \div 10) % 10), Digit(n % 10)>>

MonthLen == <<31, 29, 31, 30, 31, 30, 31, 31, 30, 31, 30, 31>>

RECURSIVE MonthDay(_, _)
MonthDay(m, d) == IF d > MonthLen[m] THEN MonthDay(m + 1, d - MonthLen[m])
                  ELSE [m |-> m, d |-> d]

Ymd(ord) == IF ord <= 0 THEN [y |-> 2023, m |-> 12, d |-> 31 + ord]
            ELSE [y |-> 2024] @@ MonthDay(1, ord)

\* strftime("%Y-%m-%d")
StrftimeIso(ord) ==
    LET t == Ymd(ord) IN Pad4(t.y) \o <<"-">> \o Pad2(t.m) \o <<"-">> \o Pad2(t.d)

\* strftime("%d/%m/%Y")
StrftimeFr(ord) ==
    LET t == Ymd(ord) IN Pad2(t.d) \o <<"/">> \o Pad2(t.m) \o <<"/">> \o Pad4(t.y)

----------------------------------------------------------------------------
(* Content and subject *)

ShortQuote == <<"h", "i">>
LongQuote == [i \in 1..41 |-> IF i = 41 THEN "z" ELSE "y"]
Quotes == {ShortQuote, LongQuote}

SubjectMax == 40
Sparkle == "U+2728"
Ellipsis == "U+2026"

\* subject = f"* {text[:40]}..." if len(text) > 40 else f"* {text}"
Subject(text) ==
    IF Len(text) > SubjectMax
    THEN <<Sparkle, " ">> \o SubSeq(text, 1, SubjectMax) \o <<Ellipsis>>
    ELSE <<Sparkle, " ">> \o text

----------------------------------------------------------------------------
(* The CSV report *)

HEADERS == <<"Date", "Subject", "Recipients", "Deliveries", "Opens", "Clicks",
             "TemporaryFailures", "PermanentFailures", "Unsubscriptions",
             "Complaints">>

\* data.get(key, 0)
Get(data, key) == IF key \in DOMAIN data THEN data[key] ELSE 0

DataRow(data, subj, date_str) ==
    <<date_str, subj, Get(data, "recipients"), Get(data, "deliveries"),
      Get(data, "opens"), Get(data, "clicks"), Get(data, "temporary_failures"),
      Get(data, "permanent_failures"), Get(data, "unsubscriptions"),
      Get(data, "complaints")>>

AppendReportRowAlwaysHeader(csv, data, subj, date_str) ==
    [exists |-> TRUE,
     rows |-> csv.rows \o <<HEADERS, DataRow(data, subj, date_str)>>]

\* append_report_row: the report file after the call
AppendReportRow(csv, data, subj, date_str) ==
    LET report_exists == csv.exists
        head == IF ~report_exists THEN <<HEADERS>> ELSE <<>>
    IN [exists |-> TRUE,
        rows |-> csv.rows \o head \o <<DataRow(data, subj, date_str)>>]

\* provider answers to GET /emails/<id>/analytics
EmptyData == <<>>
PartialData == [recipients |-> 5, opens |-> 2]
Datas == {EmptyData, PartialData}

\* provider answers to POST /emails: resp_json.get("id")
Ids == {PyStr(<<"a">>), PyStr(<<"b">>), PyNone}

----------------------------------------------------------------------------
(* Runs of main() *)

Zero == [d \in Dirs |-> 0]

NoRetry == [pending |-> FALSE, id |-> <<>>]

NoLocals ==
    /\ cwd = ScriptDir
    /\ subject = <<>>
    /\ email_id = PyNone
    /\ last_email_id = <<>>
    /\ analytics = EmptyData
    /\ outcome = "none"
    /\ idWrites = Zero
    /\ csvAppends = Zero
    /\ requested = <<>>

InitRun ==
    /\ fs \in {[d \in Dirs |-> [id |-> IF d = ScriptDir THEN f ELSE NoIdFile,
                                csv |-> NoCsv]] :
                 f \in {NoIdFile, IdFile(<<"\n">>), IdFile(<<"a", "\n">>)}}
    /\ provider = <<>>
    /\ pc = "idle"
    /\ now_local = FirstDay
    /\ runNo = 0
    /\ fsAtStart = fs
    /\ NoLocals
    /\ retry = NoRetry
    /\ calls = [d \in Dirs |-> <<>>]

IdleRender == [phase |-> "off"]
IdleUtm == [phase |-> "off"]

Init == InitRun /\ render = IdleRender /\ utm = IdleUtm

\* main, lines 255-291: the process starts in some working directory, reads
\* the clock, picks a quote and derives the subject.
StartRun(dir, text, day) ==
    /\ pc = "idle"
    /\ runNo < MaxRuns
    /\ runNo' = runNo + 1
    /\ cwd' = dir
    /\ now_local' = day
    /\ subject' = Subject(text)
    /\ outcome' = "running"
    /\ pc' = "schedule"
    /\ UNCHANGED <<fs, provider, email_id, last_email_id, analytics, retry, calls,
                   fsAtStart, idWrites, csvAppends, requested>>

\* schedule_email, lines 200-207, the POST succeeding with identifier id:
\* the identifier is written to ".last_email_id" of the working directory.
ScheduleEmail(id) ==
    /\ pc = "schedule"
    /\ provider' = Append(provider, [id |-> id, subject |-> subject])
    /\ email_id' = id
    /\ fs' = WriteId(fs, cwd, Str(id))
    /\ idWrites' = [idWrites EXCEPT ![cwd] = @ + 1]
    /\ pc' = "check"
    /\ UNCHANGED <<cwd, now_local, subject, last_email_id, analytics, runNo,
                   outcome, fsAtStart, csvAppends, requested, retry, calls>>

\* schedule_email, line 201: raise_for_status() raises, the run aborts.
ScheduleFailsAfterWrite ==
    /\ pc = "schedule"
    /\ fs' = WriteId(fs, cwd, Str(PyNone))
    /\ pc' = "exited"
    /\ outcome' = "schedule_failed"
    /\ UNCHANGED <<provider, cwd, now_local, subject, email_id, last_email_id,
                   analytics, runNo, fsAtStart, idWrites, csvAppends, requested,
                   retry, calls>>

ScheduleFails ==
    /\ pc = "schedule"
    /\ pc' = "exited"
    /\ outcome' = "schedule_failed"
    /\ UNCHANGED <<fs, provider, cwd, now_local, subject, email_id, last_email_id,
                   analytics, runNo, fsAtStart, idWrites, csvAppends, requested,
                   retry, calls>>

\* main, lines 303-307: read ".last_email_id" of the script's directory and
\* decide whether a previous email is to be reported on.
ReadPrevious ==
    /\ pc = "check"
    /\ LET f == fs[ScriptDir].id
           last == IF f.exists THEN Strip(f.text) ELSE <<>>
       IN /\ last_email_id' = last
          /\ pc' = IF f.exists /\ last # <<>> /\ last # Str(email_id)
                   THEN "fetch" ELSE "persist"
    /\ UNCHANGED <<fs, provider, cwd, now_local, subject, email_id, analytics,
                   runNo, outcome, fsAtStart, idWrites, csvAppends, requested,
                   retry, calls>>

\* retrieve_analytics, lines 212-216, the GET succeeding with data.
RetrieveAnalytics(data) ==
    /\ pc = "fetch"
    /\ requested' = Append(requested, last_email_id)
    /\ analytics' = data
    /\ pc' = "report"
    /\ UNCHANGED <<fs, provider, cwd, now_local, subject, email_id, last_email_id,
                   runNo, outcome, fsAtStart, idWrites, csvAppends, retry, calls>>

\* retrieve_analytics, line 215: raise_for_status() raises, the run aborts.
RetrieveAnalyticsFails ==
    /\ pc = "fetch"
    /\ requested' = Append(requested, last_email_id)
    /\ pc' = "exited"
    /\ outcome' = "analytics_failed"
    /\ UNCHANGED <<fs, provider, cwd, now_local, subject, email_id, last_email_id,
                   analytics, runNo, fsAtStart, idWrites, csvAppends, retry, calls>>

\* main, lines 310-311: the report date is yesterday, the subject this run's.
ReportArgsToday == [subject |-> subject, date_str |-> StrftimeIso(now_local)]

ReportArgs == [subject |-> subject, date_str |-> StrftimeIso(now_local - 1)]

\* main, lines 309-312 with append_report_row, lines 233-250; reports_csv is
\* the default relative path, resolved against the working directory.
Report ==
    /\ pc = "report"
    /\ LET a == ReportArgs
       IN /\ fs' = [fs EXCEPT ![cwd].csv =
                       AppendReportRow(@, analytics, a.subject, a.date_str)]
          /\ calls' = [calls EXCEPT ![cwd] =
                       Append(@, [data |-> analytics, subject |-> a.subject,
                                  date_str |-> a.date_str])]
    /\ csvAppends' = [csvAppends EXCEPT ![cwd] = @ + 1]
    /\ pc' = "persist"
    /\ UNCHANGED <<provider, cwd, now_local, subject, email_id, last_email_id,
                   analytics, runNo, outcome, fsAtStart, idWrites, requested, retry>>

\* append_report_row, line 234: open() raises (OSError), the run aborts.
ReportFails ==
    /\ pc = "report"
    /\ pc' = "exited"
    /\ outcome' = "report_failed"
    /\ UNCHANGED <<fs, provider, cwd, now_local, subject, email_id, last_email_id,
                   analytics, runNo, fsAtStart, idWrites, csvAppends, requested,
                   retry, calls>>

\* main, lines 314-316: overwrite ".last_email_id" of the script's directory.
PersistSkipped ==
    /\ pc = "persist"
    /\ pc' = "exited"
    /\ outcome' = "ok"
    /\ UNCHANGED <<fs, idWrites, provider, cwd, now_local, subject, email_id,
                   last_email_id, analytics, runNo, fsAtStart, csvAppends,
                   requested, retry, calls>>

Persist ==
    /\ pc = "persist"
    /\ fs' = WriteId(fs, ScriptDir, Str(email_id))
    /\ idWrites' = [idWrites EXCEPT ![ScriptDir] = @ + 1]
    /\ pc' = "exited"
    /\ outcome' = "ok"
    /\ UNCHANGED <<provider, cwd, now_local, subject, email_id, last_email_id,
                   analytics, runNo, fsAtStart, csvAppends, requested, retry, calls>>

\* main returned or an exception propagated: the process is gone, and with
\* it everything but the files and the provider's records.
Exit ==
    /\ pc = "exited"
    /\ pc' = "idle"
    /\ cwd' = ScriptDir
    /\ subject' = <<>>
    /\ email_id' = PyNone
    /\ last_email_id' = <<>>
    /\ analytics' = EmptyData
    /\ outcome' = "none"
    /\ idWrites' = Zero
    /\ csvAppends' = Zero
    /\ requested' = <<>>
    /\ fsAtStart' = fs
    /\ retry' = IF outcome = "analytics_failed"
                THEN [pending |-> TRUE, id |-> last_email_id]
                ELSE IF requested # <<>> THEN NoRetry ELSE retry
    /\ UNCHANGED <<fs, provider, now_local, runNo, calls>>

NextRun ==
    \/ \E dir \in Dirs, text \in Quotes : StartRun(dir, text, now_local + 1)
    \/ \E id \in Ids : ScheduleEmail(id)
    \/ ScheduleFails
    \/ ReadPrevious
    \/ \E data \in Datas : RetrieveAnalytics(data)
    \/ RetrieveAnalyticsFails
    \/ Report
    \/ ReportFails
    \/ Persist
    \/ Exit

Next == NextRun /\ UNCHANGED <<render, utm>>

Spec == Init /\ [][Next]_vars

----------------------------------------------------------------------------
(* append_utm *)

\* "?" in url
Contains(s, c) == \E i \in 1..Len(s) : s[i] = c

UtmParams(config) ==
    <<"u", "t", "m", "_", "s", "o", "u", "r", "c", "e", "=">> \o config.utm_source
    \o <<"&", "u", "t", "m", "_", "m", "e", "d", "i", "u", "m", "=">> \o config.utm_medium
    \o <<"&", "u", "t", "m", "_", "c", "a", "m", "p", "a", "i", "g", "n", "=">> \o config.utm_campaign

AppendUtmAlwaysQuestionMark(url, config) == url \o <<"?">> \o UtmParams(config)

\* append_utm, lines 125-133
AppendUtm(url, config) ==
    LET delimiter == IF Contains(url, "?") THEN <<"&">> ELSE <<"?">>
        utm_params == UtmParams(config)
    IN url \o delimiter \o utm_params

----------------------------------------------------------------------------
(* generate_email_html *)

StartsWith(s, prefix) ==
    Len(s) >= Len(prefix) /\ SubSeq(s, 1, Len(prefix)) = prefix

\* re.match(r"^https?://", s)
IsHttpUrl(s) == StartsWith(s, <<"h", "t", "t", "p", ":", "/", "/">>) \/ StartsWith(s, <<"h", "t", "t", "p", "s", ":", "/", "/">>)

\* s.lstrip('/')
RECURSIVE LStripSlash(_)
LStripSlash(s) == IF s # <<>> /\ Head(s) = "/" THEN LStripSlash(Tail(s)) ELSE s

\* the positions at which old occurs in s
Occurrences(s, old) ==
    {i \in 1..(Len(s) - Len(old) + 1) : SubSeq(s, i, i + Len(old) - 1) = old}

Min(S) == CHOOSE i \in S : \A j \in S : i <= j

\* str.replace(old, new), old not empty: the leftmost occurrence is replaced
\* and the search goes on after it, in the text not yet scanned
RECURSIVE Replace(_, _, _)
Replace(s, old, new) ==
    IF Occurrences(s, old) = {} THEN s
    ELSE LET i == Min(Occurrences(s, old))
         IN SubSeq(s, 1, i - 1) \o new
            \o Replace(SubSeq(s, i + Len(old), Len(s)), old, new)

Tok(name) == <<"{", "{">> \o name \o <<"}", "}">>
TokName == Tok(<<"N", "A", "M", "E">>)
TokQuote == Tok(<<"Q", "U", "O", "T", "E">>)
TokProductTitle == Tok(<<"P", "R", "O", "D", "U", "C", "T", "_", "T", "I", "T", "L", "E">>)
TokProductDesc == Tok(<<"P", "R", "O", "D", "U", "C", "T", "_", "D", "E", "S", "C">>)
TokProductImg == Tok(<<"P", "R", "O", "D", "U", "C", "T", "_", "I", "M", "G">>)
TokProductLink == Tok(<<"P", "R", "O", "D", "U", "C", "T", "_", "L", "I", "N", "K">>)
TokTipLink == Tok(<<"T", "I", "P", "_", "L", "I", "N", "K">>)
TokDate == Tok(<<"D", "A", "T", "E">>)

\* lines 147-155: the instrumented product link and the absolute image URL
ProductLink(product, config) == AppendUtm(product.link, config)

ImageUrl(product, config) ==
    LET image_path == product.image
    IN IF image_path # <<>> /\ ~IsHttpUrl(image_path)
       THEN config.site_url \o <<"/">> \o LStripSlash(image_path)
       ELSE image_path

TipLink(config) ==
    IF config.tip_link # <<>> THEN AppendUtm(config.tip_link, config) ELSE <<"#">>

\* lines 157-168: the eight tokens with their values, in the order replaced
Substitutions(recipient_name, quote, product, config, today) ==
    << <<TokName, recipient_name>>,
       <<TokQuote, quote.text>>,
       <<TokProductTitle, product.title>>,
       <<TokProductDesc, product.description>>,
       <<TokProductImg, ImageUrl(product, config)>>,
       <<TokProductLink, ProductLink(product, config)>>,
       <<TokTipLink, TipLink(config)>>,
       <<TokDate, StrftimeFr(today)>> >>

\* html = html.replace(token, value), one token after the other
RECURSIVE ReplaceAll(_, _)
ReplaceAll(html, subs) ==
    IF subs = <<>> THEN html
    ELSE ReplaceAll(Replace(html, Head(subs)[1], Head(subs)[2]), Tail(subs))

\* generate_email_html, lines 136-169; template is the content of the file
\* at template_path, today the date of datetime.now()
GenerateEmailHtml(template, recipient_name, quote, product, config, today) ==
    ReplaceAll(template, Substitutions(recipient_name, quote, product, config, today))

----------------------------------------------------------------------------
(* SpecUtm: append_utm on every short URL *)

MaxUrlLen == 3

UrlChars == {"u", "/", "?", "#"}

RECURSIVE TextsUpTo(_, _)
TextsUpTo(chars, n) ==
    IF n = 0 THEN {<<>>}
    ELSE LET shorter == TextsUpTo(chars, n - 1)
         IN shorter \cup {Append(t, c) : t \in shorter, c \in chars}

Urls == TextsUpTo(UrlChars, MaxUrlLen)

UtmValues == {<<"s">>, <<"a", "&", "b">>}

NoSite == <<>>

UtmConfigs ==
    {[utm_source |-> a, utm_medium |-> b, utm_campaign |-> c,
      tip_link |-> <<>>, site_url |-> NoSite] : a, b, c \in UtmValues}

RunOff == InitRun /\ ~fs[ScriptDir].id.exists

InitUtm ==
    /\ RunOff
    /\ render = IdleRender
    /\ utm \in {[phase |-> "in", url |-> u, config |-> c, out |-> <<>>] :
                  u \in Urls, c \in UtmConfigs}

CallAppendUtm ==
    /\ utm.phase = "in"
    /\ utm' = [utm EXCEPT !.phase = "out", !.out = AppendUtm(utm.url, utm.config)]
    /\ UNCHANGED <<runVars, render>>

NextUtm == CallAppendUtm

SpecUtm == InitUtm /\ [][NextUtm]_vars

----------------------------------------------------------------------------
(* SpecRender: generate_email_html on templates and values that may hold
   placeholder tokens *)

Today == 32

\* main, line 284
RecipientName == <<"{", "{", " ", "s", "u", "b", "s", "c", "r", "i", "b", "e", "r", ".", "n", "a", "m", "e", " ", "}", "}">>

SiteUrl == <<"h", "t", "t", "p", "s", ":", "/", "/", "s">>

Templates ==
    {TokQuote,
     TokName \o <<",">> \o TokQuote \o <<"|">> \o TokProductTitle \o <<"|">>
        \o TokProductDesc \o TokProductImg \o <<"|">> \o TokProductLink
        \o <<"|">> \o TokTipLink \o <<"|">> \o TokDate,
     TokDate \o TokQuote \o TokDate,
     <<"{", "{">> \o TokProductTitle \o <<"}", "}">>}

QuoteTexts == {<<"q">>, TokDate, TokProductTitle}
Titles == {<<"t">>, TokQuote, TokDate}
Images == {<<>>, <<"/", "/", "i">>, <<"h", "t", "t", "p", ":", "/", "/">> \o <<"i">>}
TipLinks == {<<>>, <<"k", "?">>}

RenderConfig(tip) ==
    [utm_source |-> <<"s">>, utm_medium |-> <<"m">>, utm_campaign |-> <<"c">>,
     tip_link |-> tip, site_url |-> SiteUrl]

InitRender ==
    /\ RunOff
    /\ utm = IdleUtm
    /\ render \in {[phase |-> "in", template |-> t, quote |-> [text |-> q],
                    product |-> [title |-> ti, description |-> <<"d">>,
                                 link |-> <<"l">>, image |-> im],
                    config |-> RenderConfig(tip), out |-> <<>>] :
                     t \in Templates, q \in QuoteTexts, ti \in Titles,
                     im \in Images, tip \in TipLinks}

CallGenerateEmailHtml ==
    /\ render.phase = "in"
    /\ render' = [render EXCEPT
                    !.phase = "out",
                    !.out = GenerateEmailHtml(render.template, RecipientName,
                                              render.quote, render.product,
                                              render.config, Today)]
    /\ UNCHANGED <<runVars, utm>>

NextRender == CallGenerateEmailHtml

SpecRender == InitRender /\ [][NextRender]_vars

----------------------------------------------------------------------------
(* Properties of the runs (Spec) *)

\* The run is past the decision of main line 307 and past any analytics request.
Decided ==
    \/ pc \in {"report", "persist"}
    \/ pc = "exited" /\ outcome # "schedule_failed"

\* The identifier held by the script directory's file when the run started.
PriorId == Strip(fsAtStart[ScriptDir].id.text)

\* PriorId was assigned by the provider to an email of an earlier run.
PriorFromEarlierRun ==
    /\ fsAtStart[ScriptDir].id.exists
    /\ PriorId # <<>>
    /\ \E i \in 1..(Len(provider) - 1) :
          provider[i].id.tag = "str" /\ Str(provider[i].id) = PriorId

\* data rows of a report: its rows but the header
DataRows(csv) == IF csv.rows = <<>> THEN 0 ELSE Len(csv.rows) - 1

AllDataRows(f) == DataRows(f[ScriptDir].csv) + DataRows(f[OtherDir].csv)

\* C1: at the end of a run that completed normally, .last_email_id (the file
\* main reads, and the one in the working directory) holds exactly the
\* identifier the provider returned for the email created in that run.
C1_LastIdIsThisRuns ==
    (pc = "exited" /\ outcome = "ok") =>
        /\ provider # <<>>
        /\ email_id = provider[Len(provider)].id
        /\ fs[ScriptDir].id = IdFile(Str(provider[Len(provider)].id))
        /\ fs[cwd].id = IdFile(Str(provider[Len(provider)].id))

C1_Witness ==
    /\ pc = "exited" /\ outcome = "ok"
    /\ cwd = OtherDir
    /\ email_id.tag = "str"
    /\ requested # <<>>
    /\ fsAtStart[ScriptDir].id.exists
    /\ fsAtStart[ScriptDir].id.text # Str(email_id)

\* C2: a run that starts with the identifier file holding a non-empty X
\* persisted by an earlier run, and whose create-email call returns Y # X,
\* requests analytics for X and only X, and having completed has appended
\* exactly one data row.
C2_ReportsOnPrior ==
    (Decided /\ PriorFromEarlierRun /\ email_id.tag = "str" /\ Str(email_id) # PriorId) =>
        /\ requested = <<PriorId>>
        /\ (outcome = "ok" => AllDataRows(fs) = AllDataRows(fsAtStart) + 1)

\* C3: a failed create-email call leaves the identifier file and the report
\* exactly as they were when the run started, and no analytics are requested.
C3_ScheduleFailureCommitsNothing ==
    (pc = "exited" /\ outcome = "schedule_failed") =>
        /\ fs = fsAtStart
        /\ requested = <<>>

C3_Witness ==
    /\ pc = "exited" /\ outcome = "schedule_failed"
    /\ fs[ScriptDir].id.exists /\ fs[ScriptDir].id.text = <<"b">>
    /\ \E d \in Dirs : fs[d].csv.exists

\* C4: a run whose scheduling succeeded and whose analytics fetch or report
\* append failed has persisted the new identifier nowhere: every
\* .last_email_id and every report is as it was when the run started.
C4_NewIdNeverPersisted ==
    (pc = "exited" /\ outcome \in {"analytics_failed", "report_failed"}
       /\ email_id.tag = "str") =>
        \A d \in Dirs : /\ fs[d].id = fsAtStart[d].id
                        /\ fs[d].csv = fsAtStart[d].csv

\* C5: once the fetch for prior identifier X has failed, every later run that
\* gets past scheduling (with a fresh identifier) requests analytics for X,
\* until such a fetch succeeds.
C5_RetriesSamePrior ==
    (Decided /\ retry.pending /\ email_id.tag = "str" /\ Str(email_id) # retry.id
       /\ \A i \in 1..(Len(provider) - 1) : provider[i].id # email_id) =>
        /\ requested = <<retry.id>>
        /\ provider[Len(provider)].id = email_id

\* C6: within one run the identifier file is written at most once and the
\* report is appended to at most once.
C6_EachFileTouchedOnce ==
    \A d \in Dirs : idWrites[d] <= 1 /\ csvAppends[d] <= 1

\* C7: after any sequence of append_report_row calls on a report that did
\* not exist, the report holds the header exactly once, as its first row,
\* followed by one data row per call in call order (so a call on an existing
\* report adds its data row only and leaves the earlier rows alone).
C7_HeaderOnceThenRows ==
    \A d \in Dirs :
        LET rows == fs[d].csv.rows
            n == Len(calls[d])
        IN IF n = 0 THEN ~fs[d].csv.exists /\ rows = <<>>
           ELSE /\ fs[d].csv.exists
                /\ Len(rows) = n + 1
                /\ rows[1] = HEADERS
                /\ Cardinality({i \in 1..Len(rows) : rows[i] = HEADERS}) = 1
                /\ \A i \in 1..n :
                      rows[i + 1] = DataRow(calls[d][i].data, calls[d][i].subject,
                                            calls[d][i].date_str)

C7_Witness ==
    \E d \in Dirs : Len(calls[d]) >= 2 /\ Len(fs[d].csv.rows) >= 3

\* C8: a data row appended by a run carries the subject of the email that
\* same run scheduled and, as its date, the run's local date minus one day.
C8_RowHasThisRunsSubjectAndYesterday ==
    (pc \in {"persist", "exited"} /\ csvAppends[cwd] > 0) =>
        LET rows == fs[cwd].csv.rows
            row == rows[Len(rows)]
        IN /\ DataRows(fs[cwd].csv) = DataRows(fsAtStart[cwd].csv) + 1
           /\ row[1] = StrftimeIso(now_local - 1)
           /\ row[2] = provider[Len(provider)].subject

\* the reported-on email was scheduled under another subject, two days ago
C8_Witness ==
    /\ pc = "persist" /\ csvAppends[cwd] > 0
    /\ \E i \in 1..(Len(provider) - 1) :
          /\ Str(provider[i].id) = last_email_id
          /\ provider[i].subject # subject
          /\ i + 1 < Len(provider)

----------------------------------------------------------------------------
(* Properties of generate_email_html (SpecRender) *)

\* One simultaneous substitution: the text is scanned once, every token found
\* is replaced by its value, and no value is scanned again.
TokenAt(s, i, subs) ==
    {k \in 1..Len(subs) : i + Len(subs[k][1]) - 1 <= Len(s)
                          /\ SubSeq(s, i, i + Len(subs[k][1]) - 1) = subs[k][1]}

RECURSIVE Simultaneous(_, _)
Simultaneous(s, subs) ==
    LET at == {i \in 1..Len(s) : TokenAt(s, i, subs) # {}}
    IN IF at = {} THEN s
       ELSE LET i == Min(at)
                k == Min(TokenAt(s, i, subs))
            IN SubSeq(s, 1, i - 1) \o subs[k][2]
               \o Simultaneous(SubSeq(s, i + Len(subs[k][1]), Len(s)), subs)

\* C9: the output of generate_email_html is the single simultaneous
\* substitution of the eight tokens in the template, whatever the values hold.
C9_SingleSimultaneousSubstitution ==
    render.phase = "out" =>
        render.out = Simultaneous(render.template,
                                  Substitutions(RecipientName, render.quote,
                                                render.product, render.config, Today))

----------------------------------------------------------------------------
(* Properties of append_utm (SpecUtm) *)

\* RFC 3986: the query string starts at the first "?" before any "#"
HasQueryString(url) ==
    \E i \in 1..Len(url) : url[i] = "?" /\ \A j \in 1..(i - 1) : url[j] # "#"

\* utm_source=<source>&utm_medium=<medium>&utm_campaign=<campaign>
ExpectedParams(config) ==
    <<"u", "t", "m", "_", "s", "o", "u", "r", "c", "e", "=">>
    \o config.utm_source
    \o <<"&", "u", "t", "m", "_", "m", "e", "d", "i", "u", "m", "=">>
    \o config.utm_medium
    \o <<"&", "u", "t", "m", "_", "c", "a", "m", "p", "a", "i", "g", "n", "=">>
    \o config.utm_campaign

====
